---- MODULE Spec2Model ----
(***************************************************************************)
(* The stereo-geometry calculator of app.py: the module-level calibration  *)
(* constants, get_scaled_intrinsics, and the two request handlers          *)
(* calculate_stereo and calculate_size, each run by a request worker.      *)
(*                                                                         *)
(* Python floats are modelled as exact rationals (a signed numerator over  *)
(* a positive denominator) so that products, quotients, abs, sqrt and      *)
(* round(x, k) are computed, not assumed.  TLC's integers are 32 bits      *)
(* wide, so numerators and denominators are naturals of arbitrary size,    *)
(* kept as little-endian sequences of limbs in base 1000.                  *)
(***************************************************************************)
EXTENDS Integers, Sequences, FiniteSets, TLC

(***************************************************************************)
(* Naturals of arbitrary size.  <<>> is zero; no number ends in a 0 limb.  *)
(* Sums and products are formed limb by limb and the carries settled       *)
(* afterwards, which keeps the evaluation shallow.                         *)
(***************************************************************************)
Base == 10 * 100

Limb(a, i) == IF 1 <= i /\ i <= Len(a) THEN a[i] ELSE 0

\* the number without its leading zero limbs
BNorm(a) ==
  LET top == CHOOSE k \in 0 .. Len(a) :
               /\ k = 0 \/ a[k] # 0
               /\ \A j \in k + 1 .. Len(a) : a[j] = 0
  IN  SubSeq(a, 1, top)

\* one round of carrying (or borrowing): each limb keeps its residue and
\* takes the carry of the limb below
Carry(c) ==
  [i \in 1 .. Len(c) + 1 |-> (Limb(c, i) % Base) + (Limb(c, i - 1) \div Base)]

RECURSIVE Settle(_)
\* limbs of any size (the value must not be negative) brought into 0 .. Base-1
Settle(c) ==
  IF \A i \in 1 .. Len(c) : 0 <= c[i] /\ c[i] < Base THEN BNorm(c)
  ELSE Settle(Carry(c))

RECURSIVE BFromInt(_)
BFromInt(n) ==
  IF n = 0 THEN <<>> ELSE <<n % Base>> \o BFromInt(n \div Base)

RECURSIVE BToInt(_)
BToInt(a) ==
  IF a = <<>> THEN 0 ELSE Head(a) + Base * BToInt(Tail(a))

BMax(m, n) == IF m >= n THEN m ELSE n

BAdd(a, b) ==
  Settle([i \in 1 .. BMax(Len(a), Len(b)) |-> Limb(a, i) + Limb(b, i)])

\* -1, 0 or 1 as a < b, a = b, a > b
BCmp(a, b) ==
  IF Len(a) < Len(b) THEN -1
  ELSE IF Len(a) > Len(b) THEN 1
  ELSE IF a = b THEN 0
  ELSE LET top == CHOOSE k \in 1 .. Len(a) :
                    /\ a[k] # b[k]
                    /\ \A j \in k + 1 .. Len(a) : a[j] = b[j]
       IN  IF a[top] < b[top] THEN -1 ELSE 1

\* a - b, for a >= b
BSub(a, b) == Settle([i \in 1 .. Len(a) |-> a[i] - Limb(b, i)])

\* a * k, for 0 <= k <= Base
BMulSmall(a, k) == Settle([i \in 1 .. Len(a) |-> a[i] * k])

RECURSIVE Convolve(_, _, _, _)
\* the sum of a[i] * b[k + 1 - i] over i .. Len(a)
Convolve(a, b, k, i) ==
  IF i > Len(a) \/ i > k THEN 0
  ELSE a[i] * Limb(b, k + 1 - i) + Convolve(a, b, k, i + 1)

BMul(a, b) ==
  IF a = <<>> \/ b = <<>> THEN <<>>
  ELSE Settle([k \in 1 .. Len(a) + Len(b) - 1 |->
                 Convolve(a, b, k, BMax(1, k + 1 - Len(b)))])

\* floor(a / 2)
BHalf(a) ==
  BNorm([i \in 1 .. Len(a) |-> (a[i] + (Limb(a, i + 1) % 2) * Base) \div 2])

BOne == <<1>>

BIsOdd(a) == a # <<>> /\ a[1] % 2 = 1

\* Base ^ k
BPow(k) == [i \in 1 .. k + 1 |-> IF i = k + 1 THEN 1 ELSE 0]

RECURSIVE QDigit(_, _, _, _)
\* the largest limb k in lo .. hi - 1 with k * d <= cur, given lo * d <= cur
QDigit(cur, d, lo, hi) ==
  IF lo + 1 >= hi THEN lo
  ELSE LET mid == (lo + hi) \div 2
       IN  IF BCmp(BMulSmall(d, mid), cur) <= 0 THEN QDigit(cur, d, mid, hi)
           ELSE QDigit(cur, d, lo, mid)

RECURSIVE BLongDiv(_, _, _, _)
BLongDivStep(n, d, i, cur, digit) ==
  BLongDiv(n, d, i - 1, BSub(cur, BMulSmall(d, digit))) \o <<digit>>

\* long division: the quotient limbs of positions 1 .. i, given the
\* remainder left by the limbs above i
BLongDiv(n, d, i, rem) ==
  IF i = 0 THEN <<>>
  ELSE BLongDivStep(n, d, i, BNorm(<<n[i]>> \o rem),
                    IF BCmp(BNorm(<<n[i]>> \o rem), d) < 0 THEN 0
                    ELSE QDigit(BNorm(<<n[i]>> \o rem), d, 1, Base))

\* floor(n / d), for d > 0: the limbs of n above the quotient's positions
\* are less than d and start as the remainder
BDiv(n, d) ==
  IF BCmp(n, d) < 0 THEN <<>>
  ELSE BNorm(BLongDiv(n, d, Len(n) - Len(d) + 1,
                      SubSeq(n, Len(n) - Len(d) + 2, Len(n))))

RECURSIVE BNewton(_, _)
BNewtonStep(n, x, y) == IF BCmp(y, x) < 0 THEN BNewton(n, y) ELSE x

\* Newton's iteration for the integer square root, from x >= sqrt(n)
BNewton(n, x) == BNewtonStep(n, x, BHalf(BAdd(x, BDiv(n, x))))

\* floor(sqrt(n))
BSqrt(n) == IF n = <<>> THEN <<>> ELSE BNewton(n, BPow((Len(n) + 1) \div 2))

(***************************************************************************)
(* Python floats, as exact rationals: (-1)^neg * num / den, den > 0.       *)
(***************************************************************************)
\* the number of low zero limbs num and den share: a common factor Base^k
CommonZeros(num, den) ==
  CHOOSE k \in 0 .. Len(num) :
    /\ \A j \in 1 .. k : Limb(num, j) = 0 /\ Limb(den, j) = 0
    /\ k = Len(num) \/ Limb(num, k + 1) # 0 \/ Limb(den, k + 1) # 0

Cancel(neg, num, den, k) ==
  [neg |-> neg, num |-> SubSeq(num, k + 1, Len(num)),
   den |-> SubSeq(den, k + 1, Len(den))]

Rat(neg, num, den) ==
  IF num = <<>> THEN [neg |-> FALSE, num |-> <<>>, den |-> BOne]
  ELSE Cancel(neg, num, den, CommonZeros(num, den))

\* an int as a float
Int2R(i) == IF i < 0 THEN Rat(TRUE, BFromInt(-i), BOne)
            ELSE Rat(FALSE, BFromInt(i), BOne)

RECURSIVE BTen(_)
\* 10 ^ k
BTen(k) == IF k = 0 THEN BOne ELSE BMulSmall(BTen(k - 1), 10)

\* the decimal literal i * 10^-k, e.g. Dec(991396, 3) for 991.396
Dec(i, k) == IF i < 0 THEN Rat(TRUE, BFromInt(-i), BTen(k))
             ELSE Rat(FALSE, BFromInt(i), BTen(k))

RZero == Int2R(0)
ROne == Int2R(1)

RIsZero(a) == a.num = <<>>

RNeg(a) == Rat(~a.neg, a.num, a.den)

\* abs(a)
RAbs(a) == Rat(FALSE, a.num, a.den)

\* magnitudes added or subtracted over a common denominator
RSum(an, bn, aneg, bneg, den) ==
  IF aneg = bneg THEN Rat(aneg, BAdd(an, bn), den)
  ELSE IF BCmp(an, bn) >= 0 THEN Rat(aneg, BSub(an, bn), den)
  ELSE Rat(bneg, BSub(bn, an), den)

\* a + b
RAdd(a, b) ==
  IF a.den = b.den THEN RSum(a.num, b.num, a.neg, b.neg, a.den)
  ELSE RSum(BMul(a.num, b.den), BMul(b.num, a.den), a.neg, b.neg,
            BMul(a.den, b.den))

\* a - b
RSub(a, b) == RAdd(a, RNeg(b))

\* a * b
RMul(a, b) == Rat(a.neg # b.neg, BMul(a.num, b.num), BMul(a.den, b.den))

\* a / b, for b # 0 (Python raises ZeroDivisionError on b = 0: the callers
\* test for it)
RDiv(a, b) == Rat(a.neg # b.neg, BMul(a.num, b.den), BMul(a.den, b.num))

\* -1, 0 or 1 as a < b, a = b, a > b
RCmp(a, b) ==
  LET l == BMul(a.num, b.den)
      r == BMul(b.num, a.den)
  IN  IF a.neg /\ ~b.neg THEN -1
      ELSE IF ~a.neg /\ b.neg THEN 1
      ELSE IF a.neg THEN BCmp(r, l)
      ELSE BCmp(l, r)

RLt(a, b) == RCmp(a, b) < 0
RLe(a, b) == RCmp(a, b) <= 0
REq(a, b) == RCmp(a, b) = 0

\* the nearest integer to t / 2, given t = floor(2y) and whether 2y = t:
\* halves go to the even neighbour, as round() does
HalfEven(t, exact) ==
  LET n == BHalf(BAdd(t, BOne))
  IN  IF exact /\ BIsOdd(t) /\ BIsOdd(n) THEN BSub(n, BOne) ELSE n

\* round(a, k): the nearest multiple of 10^-k
RRound(a, k) ==
  LET m == BMul(BMulSmall(a.num, 2), BTen(k))
      t == BDiv(m, a.den)
  IN  Rat(a.neg, HalfEven(t, BMul(t, a.den) = m), BTen(k))

\* math.sqrt(a), a >= 0: the algebraic number whose square is a
Sqrt(a) == [radicand |-> a]

\* round(math.sqrt(a), k)
SqrtRound(s, k) ==
  LET a == s.radicand
      m == BMul(BMulSmall(a.num, 4), BTen(2 * k))
      t == BSqrt(BDiv(m, a.den))
  IN  Rat(FALSE, HalfEven(t, BMul(BMul(t, t), a.den) = m), BTen(k))

(***************************************************************************)
(* The program state.                                                      *)
(***************************************************************************)
VARIABLES
  globals,   \* the module-level names ORIG_FX .. BASELINE of app.py
  pc,        \* per worker: "idle", the handler about to run, or "respond"
  request,   \* per worker: the JSON body of the request being served
  frame,     \* per worker: the handler's local variables when it returned
  response   \* per worker: what the handler returned (or raised)

vars == <<globals, pc, request, frame, response>>

\* app.py lines 8-17
ModuleGlobals ==
  [ORIG_FX |-> Dec(991396, 3), ORIG_FY |-> Dec(991628, 3),
   ORIG_CX |-> Dec(671244, 3), ORIG_CY |-> Dec(371286, 3),
   CALIB_W |-> 1280, CALIB_H |-> 720,
   BASELINE |-> Dec(100, 1)]

NoRequest == [route |-> "none"]
NoFrame == [none |-> TRUE]
NoResponse == [status |-> 0]

\* jsonify(body): a 200 response carrying the JSON object
jsonify(body) == [status |-> 200, json |-> body]

\* an exception escaping a view function: Flask answers 500
Raised(exc) == [status |-> 500, exception |-> exc]

DisparityMessage ==
  "Disparity is too small (d < 1.0). You clicked the same pixel or close to it!"

(***************************************************************************)
(* get_scaled_intrinsics                                                   *)
(***************************************************************************)
get_scaled_intrinsics_swapped_scale(img_w, img_h) ==
  LET scale_x == RDiv(Int2R(img_w), Int2R(globals.CALIB_W))
      scale_y == RDiv(Int2R(img_h), Int2R(globals.CALIB_H))
  IN  [fx |-> RMul(globals.ORIG_FX, scale_x),
       fy |-> RMul(globals.ORIG_FY, scale_y),
       cx |-> RMul(globals.ORIG_CX, scale_y),
       cy |-> RMul(globals.ORIG_CY, scale_y)]

get_scaled_intrinsics(img_w, img_h) ==
  LET scale_x == RDiv(Int2R(img_w), Int2R(globals.CALIB_W))
      scale_y == RDiv(Int2R(img_h), Int2R(globals.CALIB_H))
  IN  [fx |-> RMul(globals.ORIG_FX, scale_x),
       fy |-> RMul(globals.ORIG_FY, scale_y),
       cx |-> RMul(globals.ORIG_CX, scale_x),
       cy |-> RMul(globals.ORIG_CY, scale_y)]

(***************************************************************************)
(* calculate_stereo                                                        *)
(***************************************************************************)
Disparity_signed(p_left, p_right) == RSub(p_left.x, p_right.x)

\* line 54
Disparity(p_left, p_right) == RAbs(RSub(p_left.x, p_right.x))

DisparityTooSmall_le(disparity) == RLe(disparity, ROne)

\* line 56
DisparityTooSmall(disparity) == RLt(disparity, ROne)

StereoDepth_no_baseline(fx, disparity) == RDiv(fx, disparity)

StereoDepth_product(fx, disparity) ==
  RMul(RMul(fx, globals.BASELINE), disparity)

\* line 60
StereoDepth(fx, disparity) == RDiv(RMul(fx, globals.BASELINE), disparity)

\* lines 56-67, given the locals computed so far
StereoReturn(k, disparity, calculated_Z) ==
  IF DisparityTooSmall(disparity)
  THEN [locals |-> [fx |-> k.fx, fy |-> k.fy, cx |-> k.cx, cy |-> k.cy,
                    disparity |-> disparity],
        returns |-> jsonify([error |-> DisparityMessage])]
  ELSE [locals |-> [fx |-> k.fx, fy |-> k.fy, cx |-> k.cx, cy |-> k.cy,
                    disparity |-> disparity, calculated_Z |-> calculated_Z],
        returns |-> jsonify([Z |-> RRound(calculated_Z, 4),
                             disparity |-> RRound(disparity, 2)])]

\* lines 54-60, given the intrinsics; the depth of line 60 is used only
\* where line 56 did not return, so that the disparity is at least 1
StereoWith(k, disparity) ==
  StereoReturn(k, disparity, StereoDepth(k.fx, disparity))

\* the handler's locals and its return value, lines 43-67
StereoRun(data) ==
  StereoWith(get_scaled_intrinsics(data.img_w, data.img_h),
             Disparity(data.p_left, data.p_right))

calculate_stereo_rebinds_baseline(w) ==
  /\ pc[w] = "calculate_stereo"
  /\ \E run \in {StereoRun(request[w])} :
         /\ frame' = [frame EXCEPT ![w] = run.locals]
         /\ response' = [response EXCEPT ![w] = run.returns]
         /\ globals' = IF "calculated_Z" \in DOMAIN run.locals
                       THEN [globals EXCEPT !.BASELINE = run.locals.disparity]
                       ELSE globals
  /\ pc' = [pc EXCEPT ![w] = "respond"]
  /\ UNCHANGED request

calculate_stereo(w) ==
  /\ pc[w] = "calculate_stereo"
  /\ \E run \in {StereoRun(request[w])} :
         /\ frame' = [frame EXCEPT ![w] = run.locals]
         /\ response' = [response EXCEPT ![w] = run.returns]
  /\ pc' = [pc EXCEPT ![w] = "respond"]
  /\ UNCHANGED <<globals, request>>

(***************************************************************************)
(* calculate_size                                                          *)
(***************************************************************************)
\* (pixel - centre) * Z / f, lines 84-88; f # 0
BackProject(pixel, centre, Z, f) == RDiv(RMul(RSub(pixel, centre), Z), f)

RealSize_dx_only(dx, dy) == Sqrt(RMul(dx, dx))

\* line 93
RealSize(dx, dy) == Sqrt(RAdd(RMul(dx, dx), RMul(dy, dy)))

\* lines 95-99
SizeReturn(k, X1, Y1, X2, Y2, dx, dy, real_size) ==
  [locals |-> [fx |-> k.fx, fy |-> k.fy, cx |-> k.cx, cy |-> k.cy,
               X1 |-> X1, Y1 |-> Y1, X2 |-> X2, Y2 |-> Y2,
               dx |-> dx, dy |-> dy, real_size |-> real_size],
   returns |-> jsonify([size_cm |-> SqrtRound(real_size, 4),
                        dX |-> RRound(RAbs(dx), 4),
                        dY |-> RRound(RAbs(dy), 4)])]

\* line 93
SizeOfDeltas(k, X1, Y1, X2, Y2, dx, dy) ==
  SizeReturn(k, X1, Y1, X2, Y2, dx, dy, RealSize(dx, dy))

\* lines 91-92
SizeOfPoints(k, X1, Y1, X2, Y2) ==
  SizeOfDeltas(k, X1, Y1, X2, Y2, RSub(X2, X1), RSub(Y2, Y1))

\* lines 84-88: the division by fx on line 84 raises when fx is 0.0, the
\* division by fy on line 85 when fy is
SizeWith(data, k) ==
  IF RIsZero(k.fx)
  THEN [locals |-> [fx |-> k.fx, fy |-> k.fy, cx |-> k.cx, cy |-> k.cy],
        returns |-> Raised("ZeroDivisionError")]
  ELSE IF RIsZero(k.fy)
  THEN [locals |-> [fx |-> k.fx, fy |-> k.fy, cx |-> k.cx, cy |-> k.cy,
                    X1 |-> BackProject(data.p1.x, k.cx, data.Z, k.fx)],
        returns |-> Raised("ZeroDivisionError")]
  ELSE SizeOfPoints(k, BackProject(data.p1.x, k.cx, data.Z, k.fx),
                       BackProject(data.p1.y, k.cy, data.Z, k.fy),
                       BackProject(data.p2.x, k.cx, data.Z, k.fx),
                       BackProject(data.p2.y, k.cy, data.Z, k.fy))

\* the handler's locals and its return value, lines 72-99
SizeRun(data) ==
  SizeWith(data, get_scaled_intrinsics(data.img_w, data.img_h))

calculate_size(w) ==
  /\ pc[w] = "calculate_size"
  /\ \E run \in {SizeRun(request[w])} :
         /\ frame' = [frame EXCEPT ![w] = run.locals]
         /\ response' = [response EXCEPT ![w] = run.returns]
  /\ pc' = [pc EXCEPT ![w] = "respond"]
  /\ UNCHANGED <<globals, request>>

(***************************************************************************)
(* The requests a client sends.                                            *)
(***************************************************************************)
MaxScale == 2

Pixel(x, y) == [x |-> x, y |-> y]

StereoRequest(p_left, p_right, img_w, img_h) ==
  [route |-> "calculate_stereo", p_left |-> p_left, p_right |-> p_right,
   img_w |-> img_w, img_h |-> img_h]

SizeRequest(p1, p2, Z, img_w, img_h) ==
  [route |-> "calculate_size", p1 |-> p1, p2 |-> p2, Z |-> Z,
   img_w |-> img_w, img_h |-> img_h]

ScaledDims ==
  LET W == ModuleGlobals.CALIB_W
      H == ModuleGlobals.CALIB_H
  IN  {<<W * k, H * k>> : k \in 1 .. MaxScale}
      \cup {<<W * k, H>> : k \in 1 .. MaxScale}
      \cup {<<W, H * k>> : k \in 1 .. MaxScale}

SeqDims == ScaledDims \cup {<<0, 720>>, <<1280, 0>>, <<1, 1>>}

SeqPixels ==
  {Pixel(Int2R(400), Int2R(300)), Pixel(Int2R(380), Int2R(300)),
   Pixel(Int2R(381), Int2R(300)), Pixel(Dec(380999, 3), Int2R(300)),
   Pixel(Int2R(450), Int2R(300)), Pixel(Int2R(450), Int2R(340)),
   Pixel(Int2R(200000), Int2R(300))}

SizePixels ==
  {Pixel(Int2R(400), Int2R(300)), Pixel(Int2R(450), Int2R(300)),
   Pixel(Int2R(450), Int2R(340)), Pixel(Dec(380999, 3), Dec(2605, 1))}

Depths == {Dec(495698, 3), RZero, Int2R(-5)}

SeqRequests ==
  {StereoRequest(l, r, d[1], d[2]) : l \in SeqPixels, r \in SeqPixels,
                                     d \in SeqDims}
  \cup {SizeRequest(a[1], a[2], z, d[1], d[2]) :
          a \in SizePixels \X SizePixels, z \in Depths, d \in SeqDims}

PairPixels ==
  {Pixel(Int2R(400), Int2R(300)), Pixel(Int2R(380), Int2R(300)),
   Pixel(Int2R(200000), Int2R(340))}

PairSizePixels ==
  {Pixel(Int2R(400), Int2R(300)), Pixel(Int2R(450), Int2R(340))}

PairDims ==
  LET W == ModuleGlobals.CALIB_W
      H == ModuleGlobals.CALIB_H
  IN  {<<W * k, H>> : k \in 1 .. MaxScale}
      \cup {<<W, H * k>> : k \in 1 .. MaxScale}

PairRequests ==
  {StereoRequest(l, r, d[1], d[2]) : l \in PairPixels, r \in PairPixels,
                                     d \in PairDims}
  \cup {SizeRequest(a[1], a[2], Dec(495698, 3), d[1], d[2]) :
          a \in PairSizePixels \X PairSizePixels, d \in PairDims}

SeqWorkers == {1}
PairWorkers == {1, 2}

(***************************************************************************)
(* The request cycle of a worker.                                          *)
(***************************************************************************)
InitOf(W) ==
  /\ globals = ModuleGlobals
  /\ pc = [w \in W |-> "idle"]
  /\ request = [w \in W |-> NoRequest]
  /\ frame = [w \in W |-> NoFrame]
  /\ response = [w \in W |-> NoResponse]

\* a POST arrives and is routed to its view function
Post(w, data) ==
  /\ pc[w] = "idle"
  /\ request' = [request EXCEPT ![w] = data]
  /\ pc' = [pc EXCEPT ![w] = data.route]
  /\ UNCHANGED <<globals, frame, response>>

\* the response is sent; the handler's frame is gone
Respond(w) ==
  /\ pc[w] = "respond"
  /\ pc' = [pc EXCEPT ![w] = "idle"]
  /\ request' = [request EXCEPT ![w] = NoRequest]
  /\ frame' = [frame EXCEPT ![w] = NoFrame]
  /\ response' = [response EXCEPT ![w] = NoResponse]
  /\ UNCHANGED globals

Init == InitOf(SeqWorkers)

Next ==
  \E w \in SeqWorkers :
    \/ \E data \in SeqRequests : Post(w, data)
    \/ calculate_stereo(w)
    \/ calculate_size(w)
    \/ Respond(w)

Spec == Init /\ [][Next]_vars

InitPair == InitOf(PairWorkers)

NextPair ==
  \E w \in PairWorkers :
    \/ \E data \in PairRequests : Post(w, data)
    \/ calculate_stereo(w)
    \/ calculate_size(w)
    \/ Respond(w)

SpecPair == InitPair /\ [][NextPair]_vars

(***************************************************************************)
(* Vocabulary of the properties.  Each property recomputes what it needs   *)
(* from the request alone, with the calibration written out, and compares  *)
(* that with what the handler left in its frame and its response.          *)
(***************************************************************************)
Returned(w, route) == pc[w] = "respond" /\ request[w].route = route

StereoDone(w) == Returned(w, "calculate_stereo")
SizeDone(w) == Returned(w, "calculate_size")

\* a 200 response whose JSON carries the numeric field
Carries(w, field) ==
  response[w].status = 200 /\ field \in DOMAIN response[w].json

IsDisparityError(w) ==
  /\ response[w].status = 200
  /\ DOMAIN response[w].json = {"error"}
  /\ response[w].json.error = DisparityMessage

\* d = |p_left.x - p_right.x| of a stereo request
HorizontalOffset(data) ==
  IF RLt(data.p_left.x, data.p_right.x)
  THEN RSub(data.p_right.x, data.p_left.x)
  ELSE RSub(data.p_left.x, data.p_right.x)

\* (991.396 * img_w / 1280) * 10.0 / d
ExpectedDepth(data) ==
  RDiv(RMul(RDiv(RMul(Dec(991396, 3), Int2R(data.img_w)), Int2R(1280)),
            Int2R(10)),
       HorizontalOffset(data))

\* |a - b| <= 10^-k / 2: a is b rounded to k places or b is a tie
WithinHalfUnit(a, b, k) ==
  RLe(RAbs(RSub(a, b)), Dec(5, k + 1))

\* a is a whole number of 10^-k
HasPlaces(a, k) ==
  BMul(BDiv(BMul(a.num, BTen(k)), a.den), a.den) = BMul(a.num, BTen(k))

IsRounding(a, b, k) == HasPlaces(a, k) /\ WithinHalfUnit(a, b, k)

SameDims(a, b) == a.img_w = b.img_w /\ a.img_h = b.img_h

(***************************************************************************)
(* C1.  A depth-recovery call whose disparity d = |p_left.x - p_right.x|   *)
(* is below 1.0 returns the DisparityTooSmall error as a value (a 200      *)
(* response carrying only the error) and no depth; with d >= 1.0, d = 1.0  *)
(* included, it returns a depth and no error.                              *)
(***************************************************************************)
C1_DisparityThreshold ==
  \A w \in DOMAIN pc :
    StereoDone(w) =>
      IF RLt(HorizontalOffset(request[w]), ROne)
      THEN IsDisparityError(w)
      ELSE /\ Carries(w, "Z")
           /\ "error" \notin DOMAIN response[w].json

C1_Witness ==
  \E w \in DOMAIN pc :
    /\ StereoDone(w)
    /\ REq(HorizontalOffset(request[w]), ROne)
    /\ Carries(w, "Z")

(***************************************************************************)
(* C2.  A depth-recovery or size-recovery call with image_width = 0 or     *)
(* image_height = 0 signals an error and never returns a success payload   *)
(* with a numeric result.                                                  *)
(***************************************************************************)
C2_ZeroDimensionRejected ==
  \A w \in DOMAIN pc :
    (/\ pc[w] = "respond"
     /\ request[w].img_w = 0 \/ request[w].img_h = 0)
      => ~(Carries(w, "Z") \/ Carries(w, "size_cm"))

(***************************************************************************)
(* C3.  A size-recovery call whose depth Z is <= 0 is rejected with an     *)
(* error and produces no size result.                                      *)
(***************************************************************************)
C3_NonPositiveDepthRejected ==
  \A w \in DOMAIN pc :
    (SizeDone(w) /\ RLe(request[w].Z, RZero)) => ~Carries(w, "size_cm")

(***************************************************************************)
(* C4.  As claimed: with d >= 1.0 the returned depth equals                *)
(* (fx * BASELINE) / d exactly, fx = 991.396 * image_width / 1280 and      *)
(* BASELINE = 10.0.                                                        *)
(***************************************************************************)
C4_ReturnedDepthExact ==
  \A w \in DOMAIN pc :
    (StereoDone(w) /\ Carries(w, "Z"))
      => REq(response[w].json.Z, ExpectedDepth(request[w]))

IsSpecExample(data) ==
  /\ data.img_w = 1280 /\ data.img_h = 720
  /\ REq(data.p_left.x, Int2R(400)) /\ REq(data.p_right.x, Int2R(380))

(***************************************************************************)
(* C4, amended.  With d >= 1.0 the handler computes the depth              *)
(* (fx * BASELINE) / d exactly and returns it rounded to 4 decimal places  *)
(* (and the disparity rounded to 2); for the 1280x720 image with           *)
(* p_left.x = 400 and p_right.x = 380 it returns disparity 20.0 and depth  *)
(* 495.698.                                                                *)
(***************************************************************************)
C4_ReturnedDepthRounded ==
  \A w \in DOMAIN pc :
    (StereoDone(w) /\ ~RLt(HorizontalOffset(request[w]), ROne)) =>
      /\ Carries(w, "Z")
      /\ REq(frame[w].calculated_Z, ExpectedDepth(request[w]))
      /\ IsRounding(response[w].json.Z, ExpectedDepth(request[w]), 4)
      /\ IsRounding(response[w].json.disparity,
                    HorizontalOffset(request[w]), 2)
      /\ IsSpecExample(request[w]) =>
           /\ REq(response[w].json.disparity, Int2R(20))
           /\ REq(response[w].json.Z, Dec(495698, 3))

C4_Witness ==
  \E w \in DOMAIN pc :
    /\ StereoDone(w)
    /\ IsSpecExample(request[w])
    /\ Carries(w, "Z")
    /\ REq(response[w].json.Z, Dec(495698, 3))

(***************************************************************************)
(* C5.  Whenever a depth-recovery call with positive image dimensions      *)
(* does not return the DisparityTooSmall error, the Z it returns is > 0.   *)
(***************************************************************************)
C5_ReturnedDepthPositive ==
  \A w \in DOMAIN pc :
    (/\ StereoDone(w)
     /\ request[w].img_w > 0 /\ request[w].img_h > 0
     /\ ~IsDisparityError(w))
      => /\ Carries(w, "Z")
         /\ RLt(RZero, response[w].json.Z)

\* both calls returned the same outcome: the same error, or the same depth
\* and disparity
SameOutcome(v, w) ==
  \/ IsDisparityError(v) /\ IsDisparityError(w)
  \/ /\ Carries(v, "Z") /\ Carries(w, "Z")
     /\ REq(response[v].json.Z, response[w].json.Z)
     /\ REq(response[v].json.disparity, response[w].json.disparity)

Swapped(a, b) ==
  a.p_left = b.p_right /\ a.p_right = b.p_left /\ SameDims(a, b)

(***************************************************************************)
(* C6.  Two depth-recovery calls on the same image whose points are        *)
(* swapped, (p_left, p_right) and (p_right, p_left), give the same         *)
(* outcome: the same error, or the same depth and disparity.               *)
(***************************************************************************)
C6_DisparitySymmetry ==
  \A v, w \in DOMAIN pc :
    (StereoDone(v) /\ StereoDone(w) /\ Swapped(request[v], request[w]))
      => SameOutcome(v, w)

C6_Witness ==
  \E v, w \in DOMAIN pc :
    /\ StereoDone(v) /\ StereoDone(w)
    /\ Swapped(request[v], request[w])
    /\ RLt(request[v].p_left.x, request[v].p_right.x)
    /\ Carries(v, "Z") /\ Carries(w, "Z")

\* two successful depth recoveries on images of the same dimensions, the
\* first with the smaller disparity
CloserPair(v, w) ==
  /\ StereoDone(v) /\ StereoDone(w)
  /\ Carries(v, "Z") /\ Carries(w, "Z")
  /\ SameDims(request[v], request[w])
  /\ RLt(HorizontalOffset(request[v]), HorizontalOffset(request[w]))

ScaledBy(f, ref, n, m) == REq(RMul(f, Int2R(m)), RMul(ref, Int2R(n)))

(***************************************************************************)
(* C8.  get_scaled_intrinsics scales fx and cx by image_width / 1280 and   *)
(* fy and cy by image_height / 720: fx and cx depend on the width alone,   *)
(* fy and cy on the height alone; doubling the width doubles fx and cx     *)
(* and leaves fy and cy unchanged; at 1280x720 the result is the           *)
(* reference calibration.                                                  *)
(***************************************************************************)
C8_IntrinsicsScaling ==
  /\ \A w \in DOMAIN pc :
       pc[w] = "respond" =>
         /\ ScaledBy(frame[w].fx, Dec(991396, 3), request[w].img_w, 1280)
         /\ ScaledBy(frame[w].cx, Dec(671244, 3), request[w].img_w, 1280)
         /\ ScaledBy(frame[w].fy, Dec(991628, 3), request[w].img_h, 720)
         /\ ScaledBy(frame[w].cy, Dec(371286, 3), request[w].img_h, 720)
         /\ (request[w].img_w = 1280 /\ request[w].img_h = 720) =>
              /\ REq(frame[w].fx, Dec(991396, 3))
              /\ REq(frame[w].fy, Dec(991628, 3))
              /\ REq(frame[w].cx, Dec(671244, 3))
              /\ REq(frame[w].cy, Dec(371286, 3))
  /\ \A v, w \in DOMAIN pc :
       (pc[v] = "respond" /\ pc[w] = "respond") =>
         /\ request[v].img_w = request[w].img_w =>
              REq(frame[v].fx, frame[w].fx) /\ REq(frame[v].cx, frame[w].cx)
         /\ request[v].img_h = request[w].img_h =>
              REq(frame[v].fy, frame[w].fy) /\ REq(frame[v].cy, frame[w].cy)
         /\ request[w].img_w = 2 * request[v].img_w =>
              /\ REq(frame[w].fx, RMul(Int2R(2), frame[v].fx))
              /\ REq(frame[w].cx, RMul(Int2R(2), frame[v].cx))

C8_Witness ==
  \E v, w \in DOMAIN pc :
    /\ pc[v] = "respond" /\ pc[w] = "respond"
    /\ request[v].img_w = 1280 /\ request[v].img_h = 720
    /\ request[w].img_w = 2560 /\ request[w].img_h = 720
    /\ REq(frame[w].fx, Dec(1982792, 3))
    /\ REq(frame[w].fy, frame[v].fy)

\* (pixel - ref_c * n / m) * Z / (ref_f * n / m): the back-projection of one
\* pixel coordinate at depth Z, from the reference calibration
ExpectedCoordinate(pixel, Z, ref_c, ref_f, n, m) ==
  RDiv(RMul(RSub(pixel, RDiv(RMul(ref_c, Int2R(n)), Int2R(m))), Z),
       RDiv(RMul(ref_f, Int2R(n)), Int2R(m)))

ExpectedX(data, p) ==
  ExpectedCoordinate(p.x, data.Z, Dec(671244, 3), Dec(991396, 3),
                     data.img_w, 1280)

ExpectedY(data, p) ==
  ExpectedCoordinate(p.y, data.Z, Dec(371286, 3), Dec(991628, 3),
                     data.img_h, 720)

ExpectedDX(data) == RSub(ExpectedX(data, data.p2), ExpectedX(data, data.p1))
ExpectedDY(data) == RSub(ExpectedY(data, data.p2), ExpectedY(data, data.p1))

\* dX^2 + dY^2
ExpectedSquare(data) ==
  RAdd(RMul(ExpectedDX(data), ExpectedDX(data)),
       RMul(ExpectedDY(data), ExpectedDY(data)))

Squared(a) == RMul(a, a)

\* a >= 0 is sqrt(q) rounded to k places: a whole number of 10^-k with
\* (a - 10^-k / 2)^2 <= q <= (a + 10^-k / 2)^2
IsRoundedRoot(a, q, k) ==
  /\ HasPlaces(a, k)
  /\ RLe(RZero, a)
  /\ RLe(q, Squared(RAdd(a, Dec(5, k + 1))))
  /\ RLe(a, Dec(5, k + 1)) \/ RLe(Squared(RSub(a, Dec(5, k + 1))), q)

\* a size recovery on an image of positive dimensions
SizeCall(w) ==
  SizeDone(w) /\ request[w].img_w > 0 /\ request[w].img_h > 0

C10_Stateless ==
  /\ globals = ModuleGlobals
  /\ \A v, w \in DOMAIN pc :
       (pc[v] = "respond" /\ pc[w] = "respond" /\ request[v] = request[w])
         => response[v] = response[w] /\ frame[v] = frame[w]

C10_Witness ==
  \E v, w \in DOMAIN pc :
    /\ v # w
    /\ StereoDone(v) /\ pc[w] = "respond"
    /\ request[v] = request[w]
    /\ Carries(v, "Z")
    /\ response[v] = response[w]

====
